---- MODULE Spec2Model ----
\* Levox license server: the license store (table licenses), the activation
\* log (table license_activations) and the request handlers that read and
\* write them: issue-license, generate-free-license, generate-pro-license,
\* verify-license, revoke-license and get-license-token.
\*
\* Every handler is a sequence of steps separated by its awaited store calls;
\* a step is one store call together with the synchronous code around it.
\* Handlers of different requests interleave at these steps only.
EXTENDS Integers, Sequences, FiniteSets, TLC

\* ---------------------------------------------------------------------
\* Bounds of the model
\* ---------------------------------------------------------------------

\* Verify requests over a run (each is served once).
NumVerify == 3

\* The largest device_limit a license is issued with.
MaxDeviceLimit == 2

\* Clock resolution: ticks per second (the code's clock counts 1000 per second).
TicksPerSec == 2

\* The clock is observed at the start of a day plus 0..MaxSub ticks.
MaxSub == 1

\* Longest lifetime, in seconds, of the tokens signed by test-keys.
MaxLifetime == 2

\* How far beyond the maximum length raw fingerprints go.
MaxExcess == 2

\* ---------------------------------------------------------------------
\* Program constants
\* ---------------------------------------------------------------------

SecPerDay == 86400

YearDays == 365

MinFingerprintLen == 8

MaxFingerprintLen == 128

DayTicks == SecPerDay * TicksPerSec

YearTicks == YearDays * DayTicks

JWT_ISSUER == "levox-license-server"

JWT_AUDIENCE == "levox-cli"

ADMIN_ISSUE_TOKEN == "admin-secret"

\* ---------------------------------------------------------------------
\* FingerprintNormalizer (a string is a sequence of one-character strings)
\* ---------------------------------------------------------------------

Uppers == <<"A","B","C","D","E","F","G","H","I","J","K","L","M",
            "N","O","P","Q","R","S","T","U","V","W","X","Y","Z">>

Lowers == <<"a","b","c","d","e","f","g","h","i","j","k","l","m",
            "n","o","p","q","r","s","t","u","v","w","x","y","z">>

Digits == {"0","1","2","3","4","5","6","7","8","9"}

Whitespace == {" ", "\t", "\n", "\r"}

\* The characters the regular expression [^a-z0-9\-_] keeps.
KeptChars == {Lowers[i] : i \in 1..Len(Lowers)} \cup Digits \cup {"-", "_"}

\* A variant of toLowerCase that leaves every character as it is.
toLowerCase_Keep(c) == c

\* String.prototype.toLowerCase on one character.
toLowerCase(c) ==
    IF \E i \in 1..Len(Uppers) : Uppers[i] = c
    THEN Lowers[CHOOSE i \in 1..Len(Uppers) : Uppers[i] = c]
    ELSE c

\* String.prototype.trim: drops leading and trailing white space.
RECURSIVE trimStart(_)
trimStart(s) ==
    IF s # <<>> /\ Head(s) \in Whitespace THEN trimStart(Tail(s)) ELSE s

RECURSIVE trimEnd(_)
trimEnd(s) ==
    IF s # <<>> /\ s[Len(s)] \in Whitespace
    THEN trimEnd(SubSeq(s, 1, Len(s) - 1))
    ELSE s

trim(s) == trimEnd(trimStart(s))

\* A variant of stripChars whose regex lacks the g flag: only the first
\* character outside the kept set is removed.
stripChars_First(s) ==
    LET bad == {i \in 1..Len(s) : s[i] \notin KeptChars}
        first == CHOOSE i \in bad : \A j \in bad : i <= j
    IN  IF bad = {} THEN s
        ELSE SubSeq(s, 1, first - 1) \o SubSeq(s, first + 1, Len(s))

\* normalized.replace(/[^a-z0-9\-_]/g, '')
stripChars(s) == SelectSeq(s, LAMBDA c : c \in KeptChars)

\* A fingerprint of a request body: absent, a JSON string, or another JSON value.
NoFingerprint == [kind |-> "absent", chars |-> <<>>]

StrFp(s) == [kind |-> "string", chars |-> s]

NumberFp == [kind |-> "number", chars |-> <<>>]

\* A variant of Truthy that takes an absent fingerprint for a present one.
Truthy_Always(fp) == TRUE

\* JavaScript truthiness of body.device_fingerprint (a non-zero number is truthy).
Truthy(fp) ==
    \/ fp.kind = "number"
    \/ fp.kind = "string" /\ fp.chars # <<>>

\* normalizeDeviceFingerprint: [ok, value, error]; ok = FALSE stands for the
\* throw and error is its message.
normalizeDeviceFingerprint(fp) ==
    IF ~Truthy(fp) \/ fp.kind # "string"
    THEN [ok |-> FALSE, value |-> <<>>, error |-> "Invalid device fingerprint provided"]
    ELSE LET lowered == [i \in 1..Len(trim(fp.chars)) |-> toLowerCase(trim(fp.chars)[i])]
             normalized == stripChars(lowered)
         IN  IF Len(normalized) < MinFingerprintLen
             THEN [ok |-> FALSE, value |-> <<>>,
                   error |-> "Device fingerprint must be at least 8 characters long"]
             ELSE IF Len(normalized) > MaxFingerprintLen
                  THEN [ok |-> TRUE, value |-> SubSeq(normalized, 1, MaxFingerprintLen),
                        error |-> ""]
                  ELSE [ok |-> TRUE, value |-> normalized, error |-> ""]

\* ---------------------------------------------------------------------
\* TokenCodec: RS256 JWTs
\* ---------------------------------------------------------------------

\* The bytes an RS256 signature covers: header and payload.
SignedContent(t) ==
    <<t.lic, t.sub, t.jti, t.tier, t.device_limit, t.iat, t.exp, t.iss, t.aud>>

\* A variant of signLicenseToken that signs for another audience.
signLicenseToken_OtherAudience(payload) ==
    LET body == [fmt |-> "jwt", lic |-> payload.lic, sub |-> payload.sub,
                 jti |-> payload.jti, tier |-> payload.tier,
                 device_limit |-> payload.device_limit,
                 iat |-> payload.iat, exp |-> payload.exp,
                 iss |-> JWT_ISSUER, aud |-> "levox-web", sig |-> <<>>]
    IN  [body EXCEPT !.sig = SignedContent(body)]

\* signLicenseToken: jwt.sign adds iss and aud and signs with the private key.
\* A signature is modelled by the content it was computed over: only the
\* holder of the private key produces sig = SignedContent.
signLicenseToken(payload) ==
    LET body == [fmt |-> "jwt", lic |-> payload.lic, sub |-> payload.sub,
                 jti |-> payload.jti, tier |-> payload.tier,
                 device_limit |-> payload.device_limit,
                 iat |-> payload.iat, exp |-> payload.exp,
                 iss |-> JWT_ISSUER, aud |-> JWT_AUDIENCE, sig |-> <<>>]
    IN  [body EXCEPT !.sig = SignedContent(body)]

\* Seconds since the epoch of a clock value: Math.floor(ms / 1000).
Seconds(t) == t \div TicksPerSec

\* A variant of jwtVerify that does not check the signature (jwt.decode).
jwtVerify_Unsigned(t, clock) ==
    IF t.fmt # "jwt" THEN "malformed"
    ELSE IF Seconds(clock) >= t.exp THEN "expired"
    ELSE IF t.aud # JWT_AUDIENCE THEN "audience_mismatch"
    ELSE IF t.iss # JWT_ISSUER THEN "issuer_mismatch"
    ELSE "ok"

\* A variant of jwtVerify that still accepts a token in the second it expires.
jwtVerify_Exclusive(t, clock) ==
    IF t.fmt # "jwt" THEN "malformed"
    ELSE IF t.sig # SignedContent(t) THEN "bad_signature"
    ELSE IF Seconds(clock) > t.exp THEN "expired"
    ELSE IF t.aud # JWT_AUDIENCE THEN "audience_mismatch"
    ELSE IF t.iss # JWT_ISSUER THEN "issuer_mismatch"
    ELSE "ok"

\* jwt.verify(token, publicKey, {algorithms, issuer, audience}) at clock t:
\* "ok" or the reason of the throw.
jwtVerify(t, clock) ==
    IF t.fmt # "jwt" THEN "malformed"
    ELSE IF t.sig # SignedContent(t) THEN "bad_signature"
    ELSE IF Seconds(clock) >= t.exp THEN "expired"
    ELSE IF t.aud # JWT_AUDIENCE THEN "audience_mismatch"
    ELSE IF t.iss # JWT_ISSUER THEN "issuer_mismatch"
    ELSE "ok"

\* verifyLicenseToken: loads the public key, then jwt.verify; any throw is
\* rethrown as one error.
verifyLicenseToken(t, clock, e) ==
    IF ~e.publicKey THEN "no_public_key" ELSE jwtVerify(t, clock)

\* The payload jwt.verify returns for a token it accepts.
decodedPayload(t) ==
    [lic |-> t.lic, sub |-> t.sub, jti |-> t.jti, tier |-> t.tier,
     device_limit |-> t.device_limit, iat |-> t.iat, exp |-> t.exp,
     iss |-> t.iss, aud |-> t.aud]

\* What a caller of verifyLicenseToken gets: the decoded payload, or the
\* error thrown.
verifyLicenseTokenResult(t, clock, e) ==
    IF verifyLicenseToken(t, clock, e) = "ok"
    THEN [ok |-> TRUE, error |-> "", decoded |-> <<decodedPayload(t)>>]
    ELSE [ok |-> FALSE, error |-> verifyLicenseToken(t, clock, e), decoded |-> <<>>]

\* The jti that jwt.decode(token, {complete: true}) exposes without
\* verification; 0 when the token does not decode or carries no jti.
NoJti == 0

decodedJti(t) == IF t.fmt = "jwt" THEN t.jti ELSE NoJti

\* Tokens a client can send that no key holder signed.
MissingToken == [fmt |-> "missing", lic |-> "", sub |-> "", jti |-> NoJti, tier |-> "",
                 device_limit |-> 0, iat |-> 0, exp |-> 0, iss |-> "", aud |-> "",
                 sig |-> <<>>]

GarbageToken == [MissingToken EXCEPT !.fmt = "garbage"]

\* A token naming license key k with a far expiry, signed by another key.
ForgedToken(k) ==
    [fmt |-> "jwt", lic |-> "LVX", sub |-> "mallory@x.io", jti |-> k,
     tier |-> "enterprise", device_limit |-> 99, iat |-> 0,
     exp |-> Seconds(2 * YearTicks), iss |-> JWT_ISSUER, aud |-> JWT_AUDIENCE,
     sig |-> <<"forged">>]

\* A genuine token whose expiry claim was edited after signing.
TamperExp(t) == [t EXCEPT !.exp = Seconds(2 * YearTicks)]

\* ---------------------------------------------------------------------
\* State
\* ---------------------------------------------------------------------

VARIABLES
    env,                  \* process.env: which settings are configured
    now,                  \* the wall clock, in ticks
    nextKey,              \* uuid keys handed out so far + 1
    licenses,             \* table licenses: license_key -> row
    license_activations,  \* table license_activations, in insertion order
    verify,               \* verify-license requests
    revoke,               \* revoke-license requests
    issueResponse,        \* the last response of issue-license, if any
    tokenResponse,        \* the last response of get-license-token, if any
    generate,             \* generate-free-license and generate-pro-license requests
    testKeys,             \* test-keys: the payload signed, the token, the verification
    fpCall                \* a call of normalizeDeviceFingerprint: input and result

vars == <<env, now, nextKey, licenses, license_activations, verify, revoke,
          issueResponse, tokenResponse, generate, testKeys, fpCall>>

VerifyIds == 1..NumVerify

RevokeIds == {1, 2}

\* uuid keys, in the order they are generated.
Keys == {1, 2}

\* Environments the server is deployed with.
Configured == [adminToken |-> TRUE, privateKey |-> TRUE, publicKey |-> TRUE]

\* -- request inputs ---------------------------------------------------

Emails == {"a@x.io"}

Plans == {"enterprise"}

DeviceLimits == 1..MaxDeviceLimit

Periods == {1}

\* Instants at which the clock is observed: around the start and around the
\* end of every period.
Instants == {d * DayTicks + s : d \in {0} \cup Periods, s \in 0..MaxSub}

AdminHeaders == {ADMIN_ISSUE_TOKEN, "wrong-token", ""}

FpA == <<"d","e","v","-","a","a","a","1">>

FpAraw == <<" ","D","e","v","-","A","A",".","A","1"," ">>

FpB == <<"d","e","v","-","b","b","b","2">>

FpShort == <<"d","e","v","-","1">>

\* Fingerprints sent with verify requests.
Fingerprints ==
    {NoFingerprint, StrFp(FpA), StrFp(FpAraw), StrFp(FpB), StrFp(FpShort)}

\* One fingerprint per verify request, all different once normalized.
DistinctFingerprints ==
    {StrFp(<<"d","e","v","-","0","0","0",Lowers[i]>>) : i \in VerifyIds}

\* Tokens a client can send: garbage, the genuine token of a stored license,
\* that token with an edited expiry, and forgeries naming any key.
ClientTokens ==
    {MissingToken, GarbageToken}
        \cup {licenses[k].jwt : k \in DOMAIN licenses}
        \cup {TamperExp(licenses[k].jwt) : k \in DOMAIN licenses}
        \cup {ForgedToken(k) : k \in Keys}

\* The tokens the server signed and stored.
GenuineTokens == {licenses[k].jwt : k \in DOMAIN licenses}

\* -- responses --------------------------------------------------------

NoLicense == <<>>

VerifyError(status, error) ==
    [ok |-> FALSE, status |-> status, error |-> error, valid |-> FALSE, tier |-> "",
     expires_at |-> 0, device_limit |-> 0, current_devices_count |-> 0,
     device_limit_exceeded |-> FALSE]

VerifyOk(license, count, exceeded) ==
    [ok |-> TRUE, status |-> 200, error |-> "", valid |-> TRUE, tier |-> license.plan,
     expires_at |-> license.expires_at, device_limit |-> license.device_limit,
     current_devices_count |-> count, device_limit_exceeded |-> exceeded]

IdleVerify ==
    [pc |-> "idle", licenseKey |-> NoJti, license |-> NoLicense, normalizedFingerprint |-> <<>>,
     currentDevicesCount |-> 0, deviceLimitExceeded |-> FALSE,
     updatedDevices |-> <<>>, response |-> <<>>]

\* generate-free-license / generate-pro-license requests.
GenerateIds == {1, 2}

GenerateResponse(success, status, error, key, expires_at) ==
    [success |-> success, status |-> status, error |-> error,
     license_key |-> key, expires_at |-> expires_at]

GenerateError(status, error) == GenerateResponse(FALSE, status, error, NoJti, 0)

IdleGenerate == [pc |-> "idle", email |-> "", row |-> <<>>, response |-> <<>>]

\* test-keys before it has run.
IdleTestKeys == [payload |-> <<>>, token |-> <<>>, decoded |-> <<>>]

\* No call of normalizeDeviceFingerprint made yet.
NoCall == [input |-> NoFingerprint, result |-> <<>>]

IdleRevoke == [pc |-> "idle", license_key |-> NoJti, response |-> <<>>]

RevokeResponse(ok, status, error) == [ok |-> ok, status |-> status, error |-> error]

Init ==
    /\ env = Configured
    /\ now = 0
    /\ nextKey = 1
    /\ licenses = <<>>
    /\ license_activations = <<>>
    /\ verify = [p \in VerifyIds |-> IdleVerify]
    /\ revoke = [r \in RevokeIds |-> IdleRevoke]
    /\ issueResponse = <<>>
    /\ tokenResponse = <<>>
    /\ generate = [g \in GenerateIds |-> IdleGenerate]
    /\ testKeys = IdleTestKeys
    /\ fpCall = NoCall

\* ---------------------------------------------------------------------
\* The clock
\* ---------------------------------------------------------------------

Tick ==
    /\ \E t \in Instants : t > now /\ now' = t
    /\ UNCHANGED <<generate, testKeys, fpCall>>
    /\ UNCHANGED <<env, nextKey, licenses, license_activations, verify, revoke,
                   issueResponse, tokenResponse>>

\* ---------------------------------------------------------------------
\* issue-license (admin)
\* ---------------------------------------------------------------------

IssueResponse(ok, status, error, token, key, expires_at) ==
    [ok |-> ok, status |-> status, error |-> error, token |-> token,
     license_key |-> key, expires_at |-> expires_at]

IssueError(status, error) == IssueResponse(FALSE, status, error, <<>>, NoJti, 0)

\* The X-ADMIN-TOKEN check shared by issue-license and revoke-license:
\* "" when the request may proceed, otherwise the error.
adminCheck(providedToken) ==
    IF ~env.adminToken THEN "Server configuration error"
    ELSE IF providedToken = "" \/ providedToken # ADMIN_ISSUE_TOKEN
         THEN "Unauthorized - Invalid admin token"
         ELSE ""

\* A variant of issueValidation without the check device_limit < 1.
issueValidation_AnyLimit(email, plan, device_limit, period_days) ==
    IF email = "" \/ plan = "" \/ device_limit = 0 \/ period_days = 0
    THEN "Missing required fields: email, plan, device_limit, period_days"
    ELSE IF plan \notin {"pro", "enterprise"}
         THEN "Invalid plan. Must be \"pro\" or \"enterprise\""
         ELSE IF period_days < 1 THEN "period_days must be a positive number"
         ELSE ""

\* Validation of the body of issue-license: "" or the error.
issueValidation(email, plan, device_limit, period_days) ==
    IF email = "" \/ plan = "" \/ device_limit = 0 \/ period_days = 0
    THEN "Missing required fields: email, plan, device_limit, period_days"
    ELSE IF plan \notin {"pro", "enterprise"}
         THEN "Invalid plan. Must be \"pro\" or \"enterprise\""
         ELSE IF device_limit < 1 THEN "device_limit must be a positive number"
         ELSE IF period_days < 1 THEN "period_days must be a positive number"
         ELSE ""

\* A variant of licensePayload that forgets to convert exp to seconds.
licensePayload_Millis(email, key, tier, device_limit, expiresAt) ==
    [lic |-> "LVX", sub |-> email, jti |-> key, tier |-> tier,
     device_limit |-> device_limit, iat |-> Seconds(now), exp |-> expiresAt]

\* The JWT payload of a new license.
licensePayload(email, key, tier, device_limit, expiresAt) ==
    [lic |-> "LVX", sub |-> email, jti |-> key, tier |-> tier,
     device_limit |-> device_limit, iat |-> Seconds(now), exp |-> Seconds(expiresAt)]

\* The row inserted for a new license.
licenseRow(key, token, email, plan, device_limit, expiresAt) ==
    [license_key |-> key, jwt |-> token, email |-> email, plan |-> plan,
     device_limit |-> device_limit, expires_at |-> expiresAt,
     current_devices |-> <<>>, revoked |-> FALSE]

\* A variant of insertLicense that reports success and stores nothing.
insertLicense_Dropped(row) == licenses

\* supabase.from('licenses').insert(row)
insertLicense(row) ==
    [k \in DOMAIN licenses \cup {row.license_key} |->
        IF k = row.license_key THEN row ELSE licenses[k]]

\* The whole handler: it makes one store call, the insert, which may fail.
IssueLicense(providedToken, email, plan, device_limit, period_days, insertOk) ==
    LET auth == adminCheck(providedToken)
        invalid == issueValidation(email, plan, device_limit, period_days)
        licenseKey == nextKey
        expiresAt == now + period_days * DayTicks
        token == signLicenseToken(
                     licensePayload(email, licenseKey, plan, device_limit, expiresAt))
    IN  /\ UNCHANGED <<generate, testKeys, fpCall>>
        /\ UNCHANGED <<env, now, license_activations, verify, revoke, tokenResponse>>
        /\ IF auth # ""
           THEN /\ issueResponse' =
                       <<IssueError(IF env.adminToken THEN 401 ELSE 500, auth)>>
                /\ UNCHANGED <<nextKey, licenses>>
           ELSE IF invalid # ""
           THEN /\ issueResponse' = <<IssueError(400, invalid)>>
                /\ UNCHANGED <<nextKey, licenses>>
           ELSE /\ nextKey' = nextKey + 1
                /\ IF ~env.privateKey
                   THEN /\ issueResponse' = <<IssueError(500, "Internal server error")>>
                        /\ UNCHANGED licenses
                   ELSE IF ~insertOk
                   THEN /\ issueResponse' =
                               <<IssueError(500, "Failed to store license in database")>>
                        /\ UNCHANGED licenses
                   ELSE /\ licenses' = insertLicense(
                               licenseRow(licenseKey, token, email, plan,
                                          device_limit, expiresAt))
                        /\ issueResponse' =
                               <<IssueResponse(TRUE, 200, "", <<token>>, licenseKey,
                                               expiresAt)>>

\* ---------------------------------------------------------------------
\* verify-license
\* ---------------------------------------------------------------------

\* supabase.from('licenses').select(...).eq('license_key', key).single():
\* the row as a one-element sequence, or NoLicense.
selectLicense(key) ==
    IF key \in DOMAIN licenses THEN <<licenses[key]>> ELSE NoLicense

Range(seq) == {seq[i] : i \in 1..Len(seq)}

\* A variant of isRevoked that never reports a revoked row.
isRevoked_Never(license) == FALSE

\* if (license.revoked)
isRevoked(license) == license.revoked

\* if (license.expires_at && new Date(license.expires_at) < new Date())
isExpired(license, clock) == license.expires_at < clock

\* A variant of isDeviceRegistered that never finds the fingerprint.
isDeviceRegistered_Never(license, normalizedFingerprint) == FALSE

\* license.current_devices?.includes(normalizedFingerprint)
isDeviceRegistered(license, normalizedFingerprint) ==
    normalizedFingerprint \in Range(license.current_devices)

\* A variant of canAddDevice that compares with <= instead of <.
canAddDevice_Inclusive(currentDevicesCount, license) ==
    currentDevicesCount <= license.device_limit

\* if (currentDevicesCount < license.device_limit)
canAddDevice(currentDevicesCount, license) ==
    currentDevicesCount < license.device_limit

\* A variant of verifyChecks that verifies the token before it looks at the
\* revoked flag and the expiry of the row.
verifyChecks_SignatureFirst(found, token, clock) ==
    IF found = NoLicense THEN <<VerifyError(404, "License not found")>>
    ELSE IF verifyLicenseToken(token, clock, env) # "ok"
         THEN <<VerifyError(403, "Invalid license token signature")>>
    ELSE IF found[1].revoked THEN <<VerifyError(403, "License has been revoked")>>
    ELSE IF found[1].expires_at < clock THEN <<VerifyError(403, "License has expired")>>
    ELSE <<>>

\* A variant of verifyChecks that leaves out the token verification.
verifyChecks_NoSignature(found, token, clock) ==
    IF found = NoLicense THEN <<VerifyError(404, "License not found")>>
    ELSE IF found[1].revoked THEN <<VerifyError(403, "License has been revoked")>>
    ELSE IF found[1].expires_at < clock THEN <<VerifyError(403, "License has expired")>>
    ELSE <<>>

\* The checks made on the fetched row and the token, in the order of the
\* handler: the response of the first one that fails, or <<>>.
verifyChecks(found, token, clock) ==
    IF found = NoLicense THEN <<VerifyError(404, "License not found")>>
    ELSE IF isRevoked(found[1]) THEN <<VerifyError(403, "License has been revoked")>>
    ELSE IF isExpired(found[1], clock) THEN <<VerifyError(403, "License has expired")>>
    ELSE IF verifyLicenseToken(token, clock, env) # "ok"
         THEN <<VerifyError(403, "Invalid license token signature")>>
         ELSE <<>>

\* A variant of updateDevices that writes revoked: false along with the list.
updateDevices_ClearsRevoked(licenseKey, updatedDevices) ==
    [k \in DOMAIN licenses |->
        IF k = licenseKey
        THEN [licenses[k] EXCEPT !.current_devices = updatedDevices, !.revoked = FALSE]
        ELSE licenses[k]]

\* A variant of updateDevices that reports success and writes nothing.
updateDevices_Missing(licenseKey, updatedDevices) == licenses

\* .update({ current_devices: updatedDevices }).eq('license_key', licenseKey)
updateDevices(licenseKey, updatedDevices) ==
    [k \in DOMAIN licenses |->
        IF k = licenseKey
        THEN [licenses[k] EXCEPT !.current_devices = updatedDevices]
        ELSE licenses[k]]

\* The row inserted in license_activations (its timestamp is left out).
activationRow(licenseKey, normalizedFingerprint, deviceLimitExceeded) ==
    [license_key |-> licenseKey, device_fingerprint |-> normalizedFingerprint,
     success |-> ~deviceLimitExceeded, device_limit_exceeded |-> deviceLimitExceeded]

\* A request that has been answered keeps its response, the key it named and
\* the fingerprint it carried; the handler's other locals are gone.
Answered(v, response) ==
    [IdleVerify EXCEPT !.pc = "done", !.response = <<response>>,
                       !.licenseKey = v.licenseKey,
                       !.normalizedFingerprint = v.normalizedFingerprint,
                       !.updatedDevices = v.updatedDevices]

\* From the start of the handler to its second store call: body parsing,
\* jwt.decode, the select of the row, the checks on the row and the token,
\* normalization and the admission decision. The clock is read as the select
\* is answered.
VerifyRequest(p, token, fingerprint) ==
    LET licenseKey == decodedJti(token)
        found == selectLicense(licenseKey)
        failed == verifyChecks(found, token, now)
        license == found[1]
        currentDevicesCount == Len(license.current_devices)
        normalized == normalizeDeviceFingerprint(fingerprint)
        v == [IdleVerify EXCEPT !.licenseKey = licenseKey, !.license = found]
        withFp == [v EXCEPT !.normalizedFingerprint = normalized.value,
                            !.currentDevicesCount = currentDevicesCount]
    IN  /\ verify[p].pc = "idle"
        /\ UNCHANGED <<generate, testKeys, fpCall>>
        /\ UNCHANGED <<env, now, nextKey, licenses, license_activations, revoke,
                       issueResponse, tokenResponse>>
        /\ IF token.fmt = "missing"
           THEN verify' = [verify EXCEPT ![p] =
                    Answered(@, VerifyError(400, "Missing required field: token"))]
           ELSE IF licenseKey = NoJti
           THEN verify' = [verify EXCEPT ![p] =
                    Answered(@, VerifyError(400, "Invalid JWT token - missing jti"))]
           ELSE IF failed # <<>>
           THEN verify' = [verify EXCEPT ![p] = Answered(v, failed[1])]
           ELSE IF ~Truthy(fingerprint)
           THEN verify' = [verify EXCEPT ![p] =
                    Answered(v, VerifyOk(license, currentDevicesCount, FALSE))]
           ELSE IF ~normalized.ok
           THEN verify' = [verify EXCEPT ![p] =
                    Answered(v, VerifyError(500, "Internal server error"))]
           ELSE IF isDeviceRegistered(license, normalized.value)
           THEN verify' = [verify EXCEPT ![p] =
                    Answered(withFp, VerifyOk(license, currentDevicesCount, FALSE))]
           ELSE IF canAddDevice(currentDevicesCount, license)
           THEN verify' = [verify EXCEPT ![p] =
                    [withFp EXCEPT !.pc = "update",
                        !.updatedDevices =
                            Append(license.current_devices, normalized.value)]]
           ELSE verify' = [verify EXCEPT ![p] =
                    [withFp EXCEPT !.pc = "log", !.deviceLimitExceeded = TRUE]]

\* The update of current_devices; a failed update is ignored by the handler.
VerifyUpdate(p, updateOk) ==
    LET v == verify[p]
    IN  /\ v.pc = "update"
        /\ UNCHANGED <<generate, testKeys, fpCall>>
        /\ UNCHANGED <<env, now, nextKey, license_activations, revoke, issueResponse,
                       tokenResponse>>
        /\ IF updateOk
           THEN /\ licenses' = updateDevices(v.licenseKey, v.updatedDevices)
                /\ verify' = [verify EXCEPT ![p] =
                       [v EXCEPT !.pc = "log",
                                 !.currentDevicesCount = Len(v.updatedDevices)]]
           ELSE /\ UNCHANGED licenses
                /\ verify' = [verify EXCEPT ![p] = [v EXCEPT !.pc = "log"]]

\* A variant of VerifyLog that answers with an error when the insert fails.
VerifyLog_Strict(p, insertOk) ==
    LET v == verify[p]
    IN  /\ v.pc = "log"
        /\ UNCHANGED <<generate, testKeys, fpCall>>
        /\ UNCHANGED <<env, now, nextKey, licenses, revoke, issueResponse,
                       tokenResponse>>
        /\ license_activations' =
               IF insertOk
               THEN Append(license_activations,
                           activationRow(v.licenseKey, v.normalizedFingerprint,
                                         v.deviceLimitExceeded))
               ELSE license_activations
        /\ verify' = [verify EXCEPT ![p] =
               Answered(v, IF insertOk
                           THEN VerifyOk(v.license[1], v.currentDevicesCount,
                                         v.deviceLimitExceeded)
                           ELSE VerifyError(500, "Internal server error"))]

\* The insert in license_activations (its result is not looked at), then
\* the response.
VerifyLog(p, insertOk) ==
    LET v == verify[p]
    IN  /\ v.pc = "log"
        /\ UNCHANGED <<generate, testKeys, fpCall>>
        /\ UNCHANGED <<env, now, nextKey, licenses, revoke, issueResponse,
                       tokenResponse>>
        /\ license_activations' =
               IF insertOk
               THEN Append(license_activations,
                           activationRow(v.licenseKey, v.normalizedFingerprint,
                                         v.deviceLimitExceeded))
               ELSE license_activations
        /\ verify' = [verify EXCEPT ![p] =
               Answered(v, VerifyOk(v.license[1], v.currentDevicesCount,
                                    v.deviceLimitExceeded))]

\* ---------------------------------------------------------------------
\* revoke-license (admin)
\* ---------------------------------------------------------------------

\* A variant of setRevoked that reports success without writing the flag.
setRevoked_NoWrite(licenseKey) == licenses

\* A variant of setRevoked that flips the flag instead of setting it.
setRevoked_Toggle(licenseKey) ==
    [k \in DOMAIN licenses |->
        IF k = licenseKey THEN [licenses[k] EXCEPT !.revoked = ~@] ELSE licenses[k]]

\* .update({ revoked: true }).eq('license_key', key)
setRevoked(licenseKey) ==
    [k \in DOMAIN licenses |->
        IF k = licenseKey THEN [licenses[k] EXCEPT !.revoked = TRUE] ELSE licenses[k]]

RevokeAnswered(key, response) ==
    [pc |-> "done", license_key |-> key, response |-> <<response>>]

\* The admin check, body parsing, the select of the row and the checks on it.
RevokeFetch(r, providedToken, license_key) ==
    LET auth == adminCheck(providedToken)
        existingLicense == selectLicense(license_key)
    IN  /\ revoke[r].pc = "idle"
        /\ UNCHANGED <<generate, testKeys, fpCall>>
        /\ UNCHANGED <<env, now, nextKey, licenses, license_activations, verify,
                       issueResponse, tokenResponse>>
        /\ revoke' = [revoke EXCEPT ![r] =
             IF auth # ""
             THEN RevokeAnswered(NoJti,
                      RevokeResponse(FALSE, IF env.adminToken THEN 401 ELSE 500, auth))
             ELSE IF license_key = NoJti
             THEN RevokeAnswered(NoJti,
                      RevokeResponse(FALSE, 400, "Missing required field: license_key"))
             ELSE IF existingLicense = NoLicense
             THEN RevokeAnswered(license_key,
                      RevokeResponse(FALSE, 404, "License not found"))
             ELSE IF existingLicense[1].revoked
             THEN RevokeAnswered(license_key,
                      RevokeResponse(FALSE, 400, "License is already revoked"))
             ELSE [pc |-> "update", license_key |-> license_key, response |-> <<>>]]

\* The update that sets revoked, which may fail, and the response.
RevokeUpdate(r, updateOk) ==
    /\ revoke[r].pc = "update"
    /\ UNCHANGED <<generate, testKeys, fpCall>>
    /\ UNCHANGED <<env, now, nextKey, license_activations, verify, issueResponse,
                   tokenResponse>>
    /\ IF updateOk
       THEN /\ licenses' = setRevoked(revoke[r].license_key)
            /\ revoke' = [revoke EXCEPT ![r] =
                   RevokeAnswered(@.license_key, RevokeResponse(TRUE, 200, ""))]
       ELSE /\ UNCHANGED licenses
            /\ revoke' = [revoke EXCEPT ![r] =
                   RevokeAnswered(@.license_key,
                       RevokeResponse(FALSE, 500, "Failed to revoke license in database"))]

\* ---------------------------------------------------------------------
\* get-license-token
\* ---------------------------------------------------------------------

TokenResponse(ok, status, error, jwt, expires_at, tier) ==
    [ok |-> ok, status |-> status, error |-> error, jwt |-> jwt,
     expires_at |-> expires_at, tier |-> tier]

TokenError(status, error) == TokenResponse(FALSE, status, error, <<>>, 0, "")

\* A variant of GetLicenseToken without the checks of revoked and
\* expires_at.
GetLicenseToken_Unchecked(license_key) ==
    LET found == selectLicense(license_key)
    IN  /\ UNCHANGED <<generate, testKeys, fpCall>>
        /\ UNCHANGED <<env, now, nextKey, licenses, license_activations, verify,
                       revoke, issueResponse>>
        /\ tokenResponse' =
             IF license_key = NoJti
             THEN <<TokenError(400, "Missing required field: license_key")>>
             ELSE IF found = NoLicense
             THEN <<TokenError(404, "License key not found")>>
             ELSE <<TokenResponse(TRUE, 200, "", <<found[1].jwt>>,
                                  found[1].expires_at, found[1].plan)>>

\* The whole handler: it makes one store call, the select.
GetLicenseToken(license_key) ==
    LET found == selectLicense(license_key)
    IN  /\ UNCHANGED <<generate, testKeys, fpCall>>
        /\ UNCHANGED <<env, now, nextKey, licenses, license_activations, verify,
                       revoke, issueResponse>>
        /\ tokenResponse' =
             IF license_key = NoJti
             THEN <<TokenError(400, "Missing required field: license_key")>>
             ELSE IF found = NoLicense
             THEN <<TokenError(404, "License key not found")>>
             ELSE IF found[1].revoked
             THEN <<TokenError(403, "License has been revoked")>>
             ELSE IF found[1].expires_at < now
             THEN <<TokenError(403, "License has expired")>>
             ELSE <<TokenResponse(TRUE, 200, "", <<found[1].jwt>>,
                                  found[1].expires_at, found[1].plan)>>

\* ---------------------------------------------------------------------
\* generate-free-license and generate-pro-license (no credential)
\* ---------------------------------------------------------------------

\* The two self-service endpoints.
Endpoints == {"free", "pro"}

\* Emails sent to the generate endpoints: well-formed, empty, ill-formed.
GenerateEmails == Emails \cup {"", "not-an-email"}

\* /^[^\s@]+@[^\s@]+\.[^\s@]+$/.test(email), on the emails of the model.
emailRegexTest(email) == email \in Emails

\* Validation of the body: "" or the error. Only generate-free-license
\* tests the format.
generateValidation(endpoint, email) ==
    IF email = "" THEN "Email is required"
    ELSE IF endpoint = "free" /\ ~emailRegexTest(email) THEN "Invalid email format"
    ELSE ""

\* .select('id').eq('email', email).eq('plan', 'enterprise').single():
\* data is set only when exactly one row matches.
existingLicense(email) ==
    Cardinality({k \in DOMAIN licenses :
                    licenses[k].email = email /\ licenses[k].plan = "enterprise"}) = 1

\* The first store call, the select, with the code around it: validation,
\* the duplicate check, the key, the expiry one year ahead and the token.
GenerateCheck(g, endpoint, email) ==
    LET invalid == generateValidation(endpoint, email)
        licenseKey == nextKey
        expiresAt == now + YearTicks
        token == signLicenseToken(
                     licensePayload(email, licenseKey, "enterprise", 1, expiresAt))
    IN  /\ generate[g].pc = "idle"
        /\ UNCHANGED <<env, now, licenses, license_activations, verify, revoke,
                       issueResponse, tokenResponse, testKeys, fpCall>>
        /\ IF invalid # ""
           THEN /\ generate' = [generate EXCEPT ![g] =
                       [pc |-> "done", email |-> email, row |-> <<>>,
                        response |-> <<GenerateError(400, invalid)>>]]
                /\ UNCHANGED nextKey
           ELSE IF existingLicense(email)
           THEN /\ generate' = [generate EXCEPT ![g] =
                       [pc |-> "done", email |-> email, row |-> <<>>,
                        response |-> <<GenerateError(409,
                            "An enterprise license already exists for this email")>>]]
                /\ UNCHANGED nextKey
           ELSE /\ nextKey' = nextKey + 1
                /\ IF ~env.privateKey
                   THEN generate' = [generate EXCEPT ![g] =
                            [pc |-> "done", email |-> email, row |-> <<>>,
                             response |-> <<GenerateError(500,
                                                "License generation failed")>>]]
                   ELSE generate' = [generate EXCEPT ![g] =
                            [pc |-> "insert", email |-> email,
                             row |-> <<licenseRow(licenseKey, token, email,
                                                  "enterprise", 1, expiresAt)>>,
                             response |-> <<>>]]

\* The second store call, the insert, and the response. The email sent after
\* the insert changes nothing here: its failure is logged and ignored.
GenerateInsert(g, insertOk) ==
    /\ generate[g].pc = "insert"
    /\ UNCHANGED <<env, now, nextKey, license_activations, verify, revoke,
                   issueResponse, tokenResponse, testKeys, fpCall>>
    /\ IF insertOk
       THEN /\ licenses' = insertLicense(generate[g].row[1])
            /\ generate' = [generate EXCEPT ![g] =
                   [pc |-> "done", email |-> generate[g].email, row |-> <<>>,
                    response |-> <<GenerateResponse(TRUE, 200, "",
                                       generate[g].row[1].license_key,
                                       generate[g].row[1].expires_at)>>]]
       ELSE /\ UNCHANGED licenses
            /\ generate' = [generate EXCEPT ![g] =
                   [pc |-> "done", email |-> generate[g].email, row |-> <<>>,
                    response |-> <<GenerateError(500, "Failed to store license")>>]]

\* ---------------------------------------------------------------------
\* test-keys: sign a payload, verify the token
\* ---------------------------------------------------------------------

\* Payloads a caller of signLicenseToken builds at the clock value now:
\* iat is the current second and exp a later one.
Payloads ==
    {[lic |-> "LVX", sub |-> sub, jti |-> jti, tier |-> tier,
      device_limit |-> device_limit, iat |-> Seconds(now), exp |-> Seconds(now) + life] :
        sub \in Emails, jti \in Keys, tier \in {"pro", "enterprise"},
        device_limit \in DeviceLimits, life \in 1..MaxLifetime}

\* Tokens that differ from t in one claim, in the issuer or audience, or in
\* the signature, as someone without the private key can make them.
Tampered(t) ==
    {[t EXCEPT !.sub = "mallory@x.io"], [t EXCEPT !.jti = 3 - @],
     [t EXCEPT !.tier = "enterprise-plus"], [t EXCEPT !.device_limit = @ + 1],
     [t EXCEPT !.iat = @ + 1], [t EXCEPT !.exp = @ + 1], TamperExp(t),
     [t EXCEPT !.iss = "other-issuer"], [t EXCEPT !.aud = "other-audience"],
     [t EXCEPT !.sig = <<"forged">>], [t EXCEPT !.lic = "XVL"]}

\* const token = await signLicenseToken(testPayload)
SignToken(payload) ==
    /\ testKeys' = [payload |-> <<payload>>,
                    token |-> IF env.privateKey THEN <<signLicenseToken(payload)>>
                                                ELSE <<>>,
                    decoded |-> <<>>]
    /\ UNCHANGED <<env, now, nextKey, licenses, license_activations, verify, revoke,
                   issueResponse, tokenResponse, generate, fpCall>>

\* The signed token is altered on its way back to the server.
TamperToken(t) ==
    /\ testKeys.token = <<signLicenseToken(testKeys.payload[1])>>
    /\ t \in Tampered(testKeys.token[1])
    /\ testKeys' = [testKeys EXCEPT !.token = <<t>>, !.decoded = <<>>]
    /\ UNCHANGED <<env, now, nextKey, licenses, license_activations, verify, revoke,
                   issueResponse, tokenResponse, generate, fpCall>>

\* const decoded = await verifyLicenseToken(token)
VerifyToken ==
    /\ testKeys.token # <<>>
    /\ testKeys' = [testKeys EXCEPT !.decoded =
                        <<verifyLicenseTokenResult(testKeys.token[1], now, env)>>]
    /\ UNCHANGED <<env, now, nextKey, licenses, license_activations, verify, revoke,
                   issueResponse, tokenResponse, generate, fpCall>>

\* ---------------------------------------------------------------------
\* Calls of normalizeDeviceFingerprint
\* ---------------------------------------------------------------------

\* Whitespace around a raw fingerprint.
Pads == {<<>>, <<" ">>, <<"\t", "\n">>}

\* Raw fingerprints of seven fixed characters and two that vary: kept,
\* upper-case, stripped.
ShortBodies ==
    {<<"D", "e", "v", "-", "0", "_", "x">> \o <<c, d>> :
        c, d \in {"a", "Z", "9", ".", " ", "-"}}

\* Raw fingerprints around the maximum length, in upper case.
LongBodies ==
    {[i \in 1..n |-> Uppers[(i % 26) + 1]] :
        n \in (MaxFingerprintLen - 1) .. (MaxFingerprintLen + MaxExcess)}

\* What callers pass to normalizeDeviceFingerprint.
RawFingerprints ==
    {StrFp(pre \o body \o post) :
        pre \in Pads, body \in ShortBodies \cup LongBodies, post \in Pads}
    \cup {NoFingerprint, NumberFp, StrFp(<<>>)}

\* normalizeDeviceFingerprint(fingerprint)
Normalize(fingerprint) ==
    /\ fpCall' = [input |-> fingerprint,
                  result |-> <<normalizeDeviceFingerprint(fingerprint)>>]
    /\ UNCHANGED <<env, now, nextKey, licenses, license_activations, verify, revoke,
                   issueResponse, tokenResponse, generate, testKeys>>

\* The value returned is passed to normalizeDeviceFingerprint again, as a
\* stored fingerprint is when a client sends it back.
NormalizeAgain ==
    /\ fpCall.result # <<>>
    /\ fpCall.result[1].ok
    /\ fpCall' = [input |-> StrFp(fpCall.result[1].value),
                  result |-> <<normalizeDeviceFingerprint(
                                   StrFp(fpCall.result[1].value))>>]
    /\ UNCHANGED <<env, now, nextKey, licenses, license_activations, verify, revoke,
                   issueResponse, tokenResponse, generate, testKeys>>

\* ---------------------------------------------------------------------
\* Specifications
\* ---------------------------------------------------------------------

\* Requests are numbered in their order of arrival.
NextToArrive(pcs, ids, p) == pcs[p] = "idle" /\ \A q \in ids : q < p => pcs[q] # "idle"

\* issue-license requests; keys bounds the uuids handed out.
Issue(keys, headers, plans, limits, periods) ==
    /\ nextKey \in keys
    /\ \E providedToken \in headers, email \in Emails, plan \in plans,
          device_limit \in limits, period_days \in periods, insertOk \in BOOLEAN :
           IssueLicense(providedToken, email, plan, device_limit, period_days, insertOk)

\* verify-license requests ids, sending tokens and fingerprints.
Verify(ids, tokens, fingerprints) ==
    \E p \in ids :
        \/ /\ NextToArrive([q \in ids |-> verify[q].pc], ids, p)
           /\ \E token \in tokens, fingerprint \in fingerprints :
                  VerifyRequest(p, token, fingerprint)
        \/ \E updateOk \in BOOLEAN : VerifyUpdate(p, updateOk)
        \/ \E insertOk \in BOOLEAN : VerifyLog(p, insertOk)

\* revoke-license requests ids.
Revoke(ids, headers, keys) ==
    \E r \in ids :
        \/ /\ NextToArrive([q \in ids |-> revoke[q].pc], ids, r)
           /\ \E providedToken \in headers, license_key \in keys :
                  RevokeFetch(r, providedToken, license_key)
        \/ \E updateOk \in BOOLEAN : RevokeUpdate(r, updateOk)

\* The life of one license: issue, verification by two clients, revocation,
\* expiry.
Next ==
    \/ Tick
    \/ Issue({1}, AdminHeaders, Plans, DeviceLimits, Periods)
    \/ Verify({1, 2}, ClientTokens, Fingerprints)
    \/ Revoke({1}, AdminHeaders, Keys \cup {NoJti})

Spec == Init /\ [][Next]_vars

\* Revocation: two revoke requests and one client.
NextRevoke ==
    \/ Tick
    \/ Issue({1}, {ADMIN_ISSUE_TOKEN}, Plans, DeviceLimits, Periods)
    \/ Verify({1}, ClientTokens, Fingerprints)
    \/ Revoke({1, 2}, AdminHeaders, Keys \cup {NoJti})
    \/ \E license_key \in Keys \cup {NoJti} : GetLicenseToken(license_key)

SpecRevoke == Init /\ [][NextRevoke]_vars

\* Admission: three clients of one license, each with its own device.
NextAdmission ==
    \/ Issue({1}, {ADMIN_ISSUE_TOKEN}, Plans, DeviceLimits, Periods)
    \/ Verify(VerifyIds, GenuineTokens, DistinctFingerprints)

SpecAdmission == Init /\ [][NextAdmission]_vars

\* ---------------------------------------------------------------------
\* What callers were told
\* ---------------------------------------------------------------------

Answer(p) == verify[p].response[1]

IsAnswered(p) == verify[p].pc = "done"

\* The call took the admission branch and its update was applied: success,
\* device_limit_exceeded = false and a count one above the one it read.
ReportsBound(p) ==
    /\ IsAnswered(p)
    /\ Answer(p).ok
    /\ ~Answer(p).device_limit_exceeded
    /\ verify[p].updatedDevices # <<>>
    /\ Answer(p).current_devices_count = Len(verify[p].updatedDevices)

\* The call took the admission branch and the store refused its update.
UpdateFailed(p) ==
    /\ IsAnswered(p)
    /\ verify[p].updatedDevices # <<>>
    /\ Answer(p).current_devices_count # Len(verify[p].updatedDevices)

ReportsLimitExceeded(p) ==
    IsAnswered(p) /\ Answer(p).ok /\ Answer(p).device_limit_exceeded

\* The fingerprint was found in the row: success, nothing written.
ReportsAlreadyBound(p) ==
    /\ IsAnswered(p)
    /\ Answer(p).ok
    /\ ~Answer(p).device_limit_exceeded
    /\ verify[p].normalizedFingerprint # <<>>
    /\ verify[p].updatedDevices = <<>>

HasError(p, error) == IsAnswered(p) /\ ~Answer(p).ok /\ Answer(p).error = error

RevokeSucceeded(k) ==
    \E r \in RevokeIds :
        /\ revoke[r].pc = "done"
        /\ revoke[r].license_key = k
        /\ revoke[r].response[1].ok

\* Environments the server can be deployed with: complete, without the
\* admin token, without the private key.
Envs ==
    {Configured, [Configured EXCEPT !.adminToken = FALSE],
     [Configured EXCEPT !.privateKey = FALSE]}

\* The state after deployment with one of the environments envs.
InitIn(envs) ==
    /\ env \in envs
    /\ now = 0
    /\ nextKey = 1
    /\ licenses = <<>>
    /\ license_activations = <<>>
    /\ verify = [p \in VerifyIds |-> IdleVerify]
    /\ revoke = [r \in RevokeIds |-> IdleRevoke]
    /\ issueResponse = <<>>
    /\ tokenResponse = <<>>
    /\ generate = [g \in GenerateIds |-> IdleGenerate]
    /\ testKeys = IdleTestKeys
    /\ fpCall = NoCall

\* The clock moves to a later one of instants.
TickTo(instants) ==
    /\ \E t \in instants : t > now /\ now' = t
    /\ UNCHANGED <<env, nextKey, licenses, license_activations, verify, revoke,
                   issueResponse, tokenResponse, generate, testKeys, fpCall>>

\* Instants around the expiry of a one-year license generated at 0.
YearInstants == {0, YearTicks, YearTicks + 1}

\* generate requests ids at endpoints; keys bounds the uuids handed out.
Generate(ids, endpoints, emails, keys) ==
    \E g \in ids :
        \/ /\ NextToArrive([q \in ids |-> generate[q].pc], ids, g)
           /\ nextKey \in keys
           /\ \E endpoint \in endpoints, email \in emails :
                  GenerateCheck(g, endpoint, email)
        \/ \E insertOk \in BOOLEAN : GenerateInsert(g, insertOk)

\* Issuance: the admin endpoint and the two self-service endpoints, with
\* revocation and expiry of what they issue.
NextIssuance ==
    \/ TickTo(YearInstants)
    \/ Issue(Keys, AdminHeaders, Plans, {1}, Periods)
    \/ Generate(GenerateIds, Endpoints, GenerateEmails, Keys)
    \/ Revoke({1}, AdminHeaders, Keys)

SpecIssuance == InitIn(Envs) /\ [][NextIssuance]_vars

\* Clock values up to one second past the longest lifetime.
CodecInstants == 0 .. ((MaxLifetime + 1) * TicksPerSec)

\* The token codec: tokens are signed, altered and verified as time passes.
\* A caller signs a payload.
Sign == \E payload \in Payloads : SignToken(payload)

Tamper == testKeys.token # <<>> /\ \E t \in Tampered(testKeys.token[1]) : TamperToken(t)

NextCodec ==
    \/ TickTo(CodecInstants)
    \/ Sign
    \/ Tamper
    \/ VerifyToken

SpecCodec == Init /\ [][NextCodec]_vars

\* The normalizer on its own.
NextNormalize ==
    \/ \E fingerprint \in RawFingerprints : Normalize(fingerprint)
    \/ NormalizeAgain

SpecNormalize == Init /\ [][NextNormalize]_vars

\* Bodies of issue-license requests, valid and not: plans, device limits and
\* periods.
AnyPlans == {"pro", "enterprise", "free"}

AnyLimits == (0 - 1) .. MaxDeviceLimit

AnyPeriods == (0 - 1) .. 1

\* issue-license with valid and invalid bodies, as time passes.
NextValidation ==
    \/ Tick
    \/ Issue(Keys, AdminHeaders, AnyPlans, AnyLimits, AnyPeriods)

SpecValidation == Init /\ [][NextValidation]_vars

\* No request is between two of its store calls.
Quiet ==
    /\ \A p \in VerifyIds : verify[p].pc \in {"idle", "done"}
    /\ \A r \in RevokeIds : revoke[r].pc \in {"idle", "done"}

\* verify-license requests made one after the other, on a store that
\* applies every write.
SequentialVerify(ids, tokens, fingerprints) ==
    \E p \in ids :
        \/ /\ Quiet
           /\ NextToArrive([q \in ids |-> verify[q].pc], ids, p)
           /\ \E token \in tokens, fingerprint \in fingerprints :
                  VerifyRequest(p, token, fingerprint)
        \/ VerifyUpdate(p, TRUE)
        \/ VerifyLog(p, TRUE)

\* revoke-license requests of the admin made one after the other.
SequentialRevoke(ids, keys) ==
    \E r \in ids :
        \/ /\ Quiet
           /\ NextToArrive([q \in ids |-> revoke[q].pc], ids, r)
           /\ \E license_key \in keys : RevokeFetch(r, ADMIN_ISSUE_TOKEN, license_key)
        \/ RevokeUpdate(r, TRUE)

\* The test scripts: issue a license, verify it from devices, revoke it,
\* verify again, one request at a time.
NextLifecycle ==
    \/ Issue({1}, {ADMIN_ISSUE_TOKEN}, Plans, DeviceLimits, Periods)
    \/ SequentialVerify(VerifyIds, GenuineTokens, Fingerprints)
    \/ SequentialRevoke({1}, Keys)

SpecLifecycle == Init /\ [][NextLifecycle]_vars

\* ---------------------------------------------------------------------
\* Claims
\* ---------------------------------------------------------------------

\* All the verify requests of SpecAdmission were answered, they named the
\* same license, carried pairwise different fingerprints, outnumber the
\* device limit, and the store applied every update.
AllAnsweredDistinct(k) ==
    /\ \A p \in VerifyIds : IsAnswered(p) /\ verify[p].licenseKey = k /\ ~UpdateFailed(p)
    /\ \A p, q \in VerifyIds :
           p # q => verify[p].normalizedFingerprint # verify[q].normalizedFingerprint
    /\ \A p \in VerifyIds : verify[p].normalizedFingerprint # <<>>
    /\ NumVerify > licenses[k].device_limit

\* C1: with device_limit = N, M > N verify calls with M distinct fingerprints
\* on one license, in any interleaving, end with exactly N calls told bound
\* (and their fingerprints stored) and exactly M - N told limit exceeded.
C1_QuotaUnderConcurrency ==
    \A k \in DOMAIN licenses :
        AllAnsweredDistinct(k) =>
            /\ Cardinality({p \in VerifyIds : ReportsBound(p)}) = licenses[k].device_limit
            /\ \A p \in VerifyIds :
                   ReportsBound(p) =>
                       verify[p].normalizedFingerprint \in Range(licenses[k].current_devices)
            /\ Cardinality({p \in VerifyIds : ReportsLimitExceeded(p)})
                   = NumVerify - licenses[k].device_limit

\* C2: in every reachable state the number of fingerprints stored in a row's
\* current_devices is at most the row's device_limit.
C2_DevicesWithinLimit ==
    \A k \in DOMAIN licenses :
        Len(licenses[k].current_devices) <= licenses[k].device_limit

\* C2 witness: a row of the largest limit is full and a call was told bound.
C2_Witness ==
    \E k \in DOMAIN licenses, p \in VerifyIds :
        /\ Len(licenses[k].current_devices) = licenses[k].device_limit
        /\ licenses[k].device_limit = MaxDeviceLimit
        /\ verify[p].licenseKey = k
        /\ ReportsBound(p)

\* C3: once a verify call has reported its fingerprint bound, the fingerprint
\* is in the stored current_devices, in that state and in every later one.
C3_BoundStaysStored ==
    \A p \in VerifyIds :
        ReportsBound(p) =>
            /\ verify[p].licenseKey \in DOMAIN licenses
            /\ verify[p].normalizedFingerprint
                   \in Range(licenses[verify[p].licenseKey].current_devices)

\* The row a token names is stored, not revoked, not past its expires_at,
\* and the token passes verifyLicenseToken.
Admissible(token) ==
    /\ decodedJti(token) \in DOMAIN licenses
    /\ ~licenses[decodedJti(token)].revoked
    /\ ~(licenses[decodedJti(token)].expires_at < now)
    /\ verifyLicenseToken(token, now, env) = "ok"

\* C4: a verify call that reaches admission with a fingerprint already in
\* current_devices succeeds with device_limit_exceeded = false and the stored
\* count, and writes nothing, whether or not the quota is full.
C4_AlreadyBoundUnchanged ==
    [][\A p \in VerifyIds, token \in ClientTokens, fingerprint \in Fingerprints :
          ( /\ VerifyRequest(p, token, fingerprint)
            /\ Admissible(token)
            /\ normalizeDeviceFingerprint(fingerprint).ok
            /\ normalizeDeviceFingerprint(fingerprint).value
                   \in Range(licenses[decodedJti(token)].current_devices) )
          => ( /\ verify'[p].pc = "done"
               /\ verify'[p].response[1].ok
               /\ ~verify'[p].response[1].device_limit_exceeded
               /\ verify'[p].response[1].current_devices_count
                      = Len(licenses[decodedJti(token)].current_devices)
               /\ licenses' = licenses
               /\ license_activations' = license_activations )]_vars

\* C4 witness: a call was told already bound while the row was full.
C4_Witness ==
    \E p \in VerifyIds :
        /\ ReportsAlreadyBound(p)
        /\ Len(licenses[verify[p].licenseKey].current_devices)
               = licenses[verify[p].licenseKey].device_limit
        /\ Answer(p).current_devices_count = licenses[verify[p].licenseKey].device_limit

\* C5: once a revoke call for a license has returned success, every verify
\* call that starts afterwards with a token naming that license is answered
\* 'License has been revoked', at any clock value, with or without a
\* fingerprint.
C5_RevocationAbsorbing ==
    [][\A p \in VerifyIds, token \in ClientTokens, fingerprint \in Fingerprints :
          ( /\ VerifyRequest(p, token, fingerprint)
            /\ RevokeSucceeded(decodedJti(token)) )
          => verify'[p].response = <<VerifyError(403, "License has been revoked")>>]_vars

\* C5 witness: a revoke succeeded and a verify call that carried a
\* fingerprint for a license bound earlier was answered revoked.
C5_Witness ==
    \E k \in DOMAIN licenses, p \in VerifyIds :
        /\ RevokeSucceeded(k)
        /\ verify[p].licenseKey = k
        /\ HasError(p, "License has been revoked")
        /\ licenses[k].current_devices # <<>>
        /\ licenses[k].expires_at > now

\* The answers of the first step of an authorized revoke request.
RevokeFetchAnswers(r) ==
    \A k \in Keys :
        RevokeFetch(r, ADMIN_ISSUE_TOKEN, k) =>
            IF k \notin DOMAIN licenses
            THEN /\ revoke'[r] = RevokeAnswered(k,
                                     RevokeResponse(FALSE, 404, "License not found"))
                 /\ licenses' = licenses
            ELSE IF licenses[k].revoked
            THEN /\ revoke'[r] = RevokeAnswered(k,
                                     RevokeResponse(FALSE, 400, "License is already revoked"))
                 /\ licenses' = licenses
            ELSE revoke'[r].pc = "update"

\* Request r makes its update step.
RevokeWrites(r) == revoke[r].pc = "update" /\ revoke'[r].pc = "done"

\* C6 as stated: revoke fails with not found when no row exists, fails with
\* already revoked when the row read is revoked, and otherwise sets
\* revoked = true; the two failing cases leave the store unchanged.
C6_RevokeOutcomes ==
    [][\A r \in RevokeIds :
          /\ RevokeFetchAnswers(r)
          /\ RevokeWrites(r) =>
                 /\ revoke'[r].response[1].ok
                 /\ licenses'[revoke[r].license_key].revoked]_vars

\* C6 amended: as C6, but in the third case the write may be refused by the
\* store: then the call fails with 'Failed to revoke license in database'
\* and the store is unchanged; when the write is applied the call succeeds
\* and only the revoked flag of that row changes, to true.
C6_RevokeOutcomesOrStorageError ==
    [][\A r \in RevokeIds :
          /\ RevokeFetchAnswers(r)
          /\ RevokeWrites(r) =>
                 IF revoke'[r].response[1].ok
                 THEN /\ licenses'[revoke[r].license_key].revoked
                      /\ licenses' = [licenses EXCEPT
                                         ![revoke[r].license_key].revoked = TRUE]
                 ELSE /\ revoke'[r].response[1].error
                             = "Failed to revoke license in database"
                      /\ licenses' = licenses]_vars

\* C6 witness: a revoke succeeded, another was told already revoked, and the
\* row is revoked.
C6_Witness ==
    \E r, q \in RevokeIds, k \in DOMAIN licenses :
        /\ revoke[r].pc = "done" /\ revoke[r].license_key = k
        /\ revoke[r].response[1].ok
        /\ revoke[q].pc = "done" /\ revoke[q].license_key = k
        /\ revoke[q].response[1].error = "License is already revoked"
        /\ licenses[k].revoked

\* C7: no step turns a row's revoked flag from true to false, and no step
\* removes a row.
C7_RevokedMonotonic ==
    [][\A k \in DOMAIN licenses :
          /\ k \in DOMAIN licenses'
          /\ licenses[k].revoked => licenses'[k].revoked]_vars

\* C7 witness: a row was revoked while a device was bound to it, a second
\* revoke and a token retrieval were answered after that.
C7_Witness ==
    \E k \in DOMAIN licenses :
        /\ licenses[k].revoked
        /\ licenses[k].current_devices # <<>>
        /\ \E r \in RevokeIds :
               /\ revoke[r].pc = "done"
               /\ revoke[r].response[1].error = "License is already revoked"
        /\ tokenResponse = <<TokenError(403, "License has been revoked")>>

\* C8: a verify call on a stored, non-revoked row with expires_at <= now is
\* answered 'License has expired', the instant now = expires_at included.
C8_ExpiredAtBoundary ==
    [][\A p \in VerifyIds, token \in ClientTokens, fingerprint \in Fingerprints :
          ( /\ VerifyRequest(p, token, fingerprint)
            /\ decodedJti(token) \in DOMAIN licenses
            /\ ~licenses[decodedJti(token)].revoked
            /\ licenses[decodedJti(token)].expires_at <= now )
          => verify'[p].response = <<VerifyError(403, "License has expired")>>]_vars

\* The answer the order of checks prescribes for a verify request: the error
\* of the first failing check among malformed token, row not found, revoked,
\* expired row, token verification, fingerprint; "" when none fails.
FirstFailure(token, fingerprint) ==
    IF token.fmt = "missing" THEN "Missing required field: token"
    ELSE IF decodedJti(token) = NoJti THEN "Invalid JWT token - missing jti"
    ELSE IF decodedJti(token) \notin DOMAIN licenses THEN "License not found"
    ELSE IF licenses[decodedJti(token)].revoked THEN "License has been revoked"
    ELSE IF licenses[decodedJti(token)].expires_at < now THEN "License has expired"
    ELSE IF verifyLicenseToken(token, now, env) # "ok"
         THEN "Invalid license token signature"
    ELSE IF Truthy(fingerprint) /\ ~normalizeDeviceFingerprint(fingerprint).ok
         THEN "Internal server error"
    ELSE ""

\* C9: verify answers with the error of the first failing check in the order
\* malformed token, row not found, revoked, expired row, token verification,
\* fingerprint, and with no error when none fails.
C9_CheckOrder ==
    [][\A p \in VerifyIds, token \in ClientTokens, fingerprint \in Fingerprints :
          VerifyRequest(p, token, fingerprint) =>
              IF FirstFailure(token, fingerprint) # ""
              THEN /\ verify'[p].pc = "done"
                   /\ ~verify'[p].response[1].ok
                   /\ verify'[p].response[1].error = FirstFailure(token, fingerprint)
              ELSE \/ verify'[p].pc \in {"update", "log"}
                   \/ verify'[p].pc = "done" /\ verify'[p].response[1].ok]_vars

\* C9 witness: request 1 was answered expired and request 2, which arrived
\* later for the same row, revoked: the row was both expired and revoked
\* when request 2 was checked.
C9_Witness ==
    /\ HasError(1, "License has expired")
    /\ HasError(2, "License has been revoked")
    /\ verify[1].licenseKey = verify[2].licenseKey

\* C10: a verify request goes on to write (current_devices or the activation
\* log) only if its token passed verifyLicenseToken and the row it loaded
\* was stored, not revoked and not expired; current_devices of a row changes
\* only by the update of a request admitted for that row, and the log grows
\* only by the row of such a request.
C10_NoMutationBeforeVerification ==
    [][/\ \A p \in VerifyIds, token \in ClientTokens, fingerprint \in Fingerprints :
              ( /\ VerifyRequest(p, token, fingerprint)
                /\ verify'[p].pc \in {"update", "log"} )
              => ( /\ verifyLicenseToken(token, now, env) = "ok"
                   /\ decodedJti(token) \in DOMAIN licenses
                   /\ ~licenses[decodedJti(token)].revoked
                   /\ licenses[decodedJti(token)].expires_at > now
                   /\ verify'[p].licenseKey = decodedJti(token) )
       /\ \A k \in DOMAIN licenses :
              licenses'[k].current_devices # licenses[k].current_devices
              => \E p \in VerifyIds :
                     /\ verify[p].pc = "update"
                     /\ verify[p].licenseKey = k
                     /\ licenses'[k].current_devices = verify[p].updatedDevices
       /\ \A k \in DOMAIN licenses' \ DOMAIN licenses :
              licenses'[k].current_devices = <<>>
       /\ license_activations' # license_activations
              => \E p \in VerifyIds :
                     /\ verify[p].pc = "log"
                     /\ license_activations' =
                            Append(license_activations,
                                   activationRow(verify[p].licenseKey,
                                                 verify[p].normalizedFingerprint,
                                                 verify[p].deviceLimitExceeded))]_vars

\* C10 witness: a request with a forged token was refused for a row that
\* has a device bound and an activation logged by another request.
C10_Witness ==
    \E p, q \in VerifyIds :
        /\ HasError(p, "Invalid license token signature")
        /\ ReportsBound(q)
        /\ verify[p].licenseKey = verify[q].licenseKey
        /\ licenses[verify[q].licenseKey].current_devices
               = <<verify[q].normalizedFingerprint>>
        /\ Len(license_activations) = 1

\* An answered generate request.
GenerateDone(g) == generate[g].pc = "done"

\* C11: a success response of issue-license or of a generate endpoint names
\* a license only if its row was inserted (with the token returned); a
\* request whose insert failed is answered with no token and no license key.
C11_IssuedOnlyIfStored ==
    [][/\ issueResponse' # issueResponse =>
              IF issueResponse'[1].ok
              THEN /\ issueResponse'[1].license_key \notin DOMAIN licenses
                   /\ issueResponse'[1].license_key \in DOMAIN licenses'
                   /\ <<licenses'[issueResponse'[1].license_key].jwt>>
                          = issueResponse'[1].token
              ELSE /\ issueResponse'[1].token = <<>>
                   /\ issueResponse'[1].license_key = NoJti
                   /\ licenses' = licenses
       /\ \A g \in GenerateIds :
              (generate[g].pc # "done" /\ generate'[g].pc = "done") =>
                  IF generate'[g].response[1].success
                  THEN /\ generate'[g].response[1].license_key \notin DOMAIN licenses
                       /\ generate'[g].response[1].license_key \in DOMAIN licenses'
                  ELSE /\ generate'[g].response[1].license_key = NoJti
                       /\ licenses' = licenses]_vars

\* C11 witness: the insert of a generate request failed and it was refused,
\* and issue-license answered success for a row that is stored.
C11_Witness ==
    /\ \E g \in GenerateIds :
           /\ GenerateDone(g)
           /\ generate[g].response[1].error = "Failed to store license"
    /\ issueResponse # <<>>
    /\ issueResponse[1].ok
    /\ issueResponse[1].license_key \in DOMAIN licenses

\* A non-revoked, non-expired enterprise row exists for email.
ActiveExists(email) ==
    \E k \in DOMAIN licenses :
        /\ licenses[k].email = email
        /\ licenses[k].plan = "enterprise"
        /\ ~licenses[k].revoked
        /\ licenses[k].expires_at > now

\* C12: a generate request with a valid email is refused as a duplicate
\* exactly when a non-revoked, non-expired enterprise row exists for that
\* email; after that row was revoked or has expired it is not refused.
C12_DuplicateOnlyWhileActive ==
    [][\A g \in GenerateIds, endpoint \in Endpoints, email \in Emails :
          GenerateCheck(g, endpoint, email) =>
              ( ( /\ generate'[g].pc = "done"
                  /\ generate'[g].response[1].status = 409 )
                <=> ActiveExists(email) )]_vars

\* The request that makes the step creating or revoking a row presented the
\* admin token to a server that has one configured.
CreatedByAdmin ==
    /\ env.adminToken
    /\ \E email \in Emails, plan \in Plans, device_limit \in DeviceLimits,
          period_days \in Periods :
           IssueLicense(ADMIN_ISSUE_TOKEN, email, plan, device_limit, period_days, TRUE)

\* C13: a row is created only by a request that presented the valid admin
\* token, a revoke request goes on to its write only if it presented it, the
\* revoked flag is set only by such a request, and nothing of this happens
\* when the admin token is not configured.
C13_AdminOnly ==
    [][/\ DOMAIN licenses' # DOMAIN licenses => CreatedByAdmin
       /\ \A r \in RevokeIds, providedToken \in AdminHeaders, k \in Keys \cup {NoJti} :
              (RevokeFetch(r, providedToken, k) /\ revoke'[r].pc = "update")
                  => (env.adminToken /\ providedToken = ADMIN_ISSUE_TOKEN)
       /\ \A k \in DOMAIN licenses :
              (~licenses[k].revoked /\ licenses'[k].revoked)
                  => \E r \in RevokeIds :
                         revoke[r].pc = "update" /\ revoke[r].license_key = k]_vars

\* The response of the handler's outer catch, shared by every failure that
\* has no response of its own.
GenericFailure == VerifyError(500, "Internal server error")

\* C14: a verify call whose fingerprint fails normalization is answered
\* with an error of its own kind, not the generic failure, and writes
\* neither the row nor the activation log.
C14_BadFingerprintIsSpecific ==
    [][\A p \in VerifyIds, token \in ClientTokens, fingerprint \in Fingerprints :
          ( /\ VerifyRequest(p, token, fingerprint)
            /\ Admissible(token)
            /\ Truthy(fingerprint)
            /\ ~normalizeDeviceFingerprint(fingerprint).ok )
          => ( /\ verify'[p].pc = "done"
               /\ ~verify'[p].response[1].ok
               /\ verify'[p].response[1] # GenericFailure
               /\ licenses' = licenses
               /\ license_activations' = license_activations )]_vars

\* The request meets a full row with a fingerprint that is not in it.
MeetsFullRow(token, fingerprint) ==
    /\ Admissible(token)
    /\ normalizeDeviceFingerprint(fingerprint).ok
    /\ normalizeDeviceFingerprint(fingerprint).value
           \notin Range(licenses[decodedJti(token)].current_devices)
    /\ Len(licenses[decodedJti(token)].current_devices)
           >= licenses[decodedJti(token)].device_limit

\* C15: a verify call with a new fingerprint on a valid license whose row
\* is full is answered success, valid, device_limit_exceeded = true with the
\* count it read, and does not write current_devices; and a result has
\* device_limit_exceeded = true only for such a call.
C15_QuotaExhaustedStaysValid ==
    [][\A p \in VerifyIds :
          /\ \A token \in ClientTokens, fingerprint \in Fingerprints :
                 VerifyRequest(p, token, fingerprint) =>
                     IF MeetsFullRow(token, fingerprint)
                     THEN /\ verify'[p].pc = "log"
                          /\ verify'[p].deviceLimitExceeded
                          /\ verify'[p].currentDevicesCount
                                 = Len(licenses[decodedJti(token)].current_devices)
                          /\ licenses' = licenses
                     ELSE /\ ~verify'[p].deviceLimitExceeded
                          /\ verify'[p].pc = "done" =>
                                 ~verify'[p].response[1].device_limit_exceeded
          /\ (verify[p].pc = "update" /\ verify'[p].pc # "update")
                 => ~verify'[p].deviceLimitExceeded
          /\ (verify[p].pc = "log" /\ verify'[p].pc = "done") =>
                 /\ verify'[p].response[1].ok
                 /\ verify'[p].response[1].valid
                 /\ verify'[p].response[1].device_limit_exceeded
                        = verify[p].deviceLimitExceeded
                 /\ verify'[p].response[1].current_devices_count
                        = verify[p].currentDevicesCount
                 /\ verify[p].deviceLimitExceeded => licenses' = licenses]_vars

\* C15 witness: a call with a fingerprint that is not in the full row was
\* answered valid with device_limit_exceeded = true and the row's count.
C15_Witness ==
    \E p \in VerifyIds :
        /\ ReportsLimitExceeded(p)
        /\ Answer(p).valid
        /\ verify[p].normalizedFingerprint
               \notin Range(licenses[verify[p].licenseKey].current_devices)
        /\ Len(licenses[verify[p].licenseKey].current_devices)
               = licenses[verify[p].licenseKey].device_limit
        /\ Answer(p).current_devices_count = licenses[verify[p].licenseKey].device_limit

\* C16: requests made one after the other on a working store. With the
\* license's token and a valid fingerprint, the first verify binds it and
\* answers count 1, device_limit_exceeded = false; with device_limit = 1 the
\* same fingerprint again is already bound with count 1 and another
\* fingerprint is answered device_limit_exceeded = true with count 1; after
\* a successful revoke a verify without fingerprint is answered revoked.
C16_Lifecycle ==
    [][\A p \in VerifyIds :
          /\ \A k \in DOMAIN licenses, fingerprint \in Fingerprints :
                 VerifyRequest(p, licenses[k].jwt, fingerprint) =>
                     LET n == normalizeDeviceFingerprint(fingerprint)
                         row == licenses[k]
                     IN  /\ (fingerprint = NoFingerprint /\ RevokeSucceeded(k))
                                => verify'[p].response
                                       = <<VerifyError(403, "License has been revoked")>>
                         /\ (n.ok /\ ~row.revoked /\ row.current_devices = <<>>)
                                => ( /\ verify'[p].pc = "update"
                                     /\ verify'[p].updatedDevices = <<n.value>> )
                         /\ ( /\ n.ok /\ ~row.revoked /\ row.device_limit = 1
                              /\ row.current_devices = <<n.value>> )
                                => ( /\ verify'[p].pc = "done"
                                     /\ verify'[p].response[1].ok
                                     /\ verify'[p].response[1].current_devices_count = 1
                                     /\ ~verify'[p].response[1].device_limit_exceeded
                                     /\ licenses' = licenses
                                     /\ license_activations' = license_activations )
                         /\ ( /\ n.ok /\ ~row.revoked /\ row.device_limit = 1
                              /\ Len(row.current_devices) = 1
                              /\ row.current_devices # <<n.value>> )
                                => ( /\ verify'[p].pc = "log"
                                     /\ verify'[p].deviceLimitExceeded )
          /\ (verify[p].pc = "log" /\ verify'[p].pc = "done") =>
                 LET k == verify[p].licenseKey
                 IN  /\ verify'[p].response[1].ok
                     /\ verify[p].updatedDevices = <<verify[p].normalizedFingerprint>>
                            => ( /\ verify'[p].response[1].current_devices_count = 1
                                 /\ ~verify'[p].response[1].device_limit_exceeded
                                 /\ licenses'[k].current_devices
                                        = <<verify[p].normalizedFingerprint>> )
                     /\ (verify[p].deviceLimitExceeded /\ licenses[k].device_limit = 1)
                            => ( /\ verify'[p].response[1].current_devices_count = 1
                                 /\ verify'[p].response[1].device_limit_exceeded
                                 /\ licenses'[k].current_devices = licenses[k].current_devices
                                 /\ Len(licenses[k].current_devices) = 1 )]_vars

\* C16 witness: with device_limit = 1, the first verify bound its device
\* with count 1, the second, from another device, was answered
\* device_limit_exceeded with count 1, and the third, without fingerprint
\* after the revoke, was answered revoked.
C16_Witness ==
    /\ 1 \in DOMAIN licenses
    /\ licenses[1].device_limit = 1
    /\ ReportsBound(1) /\ Answer(1).current_devices_count = 1
    /\ ReportsLimitExceeded(2) /\ Answer(2).current_devices_count = 1
    /\ RevokeSucceeded(1)
    /\ HasError(3, "License has been revoked")
    /\ verify[3].normalizedFingerprint = <<>>

\* The token on the wire is the one signLicenseToken made of the payload.
Untouched ==
    /\ testKeys.payload # <<>>
    /\ testKeys.token = <<signLicenseToken(testKeys.payload[1])>>

\* The claims of a payload that a verification returned.
SameClaims(decoded, payload) ==
    /\ decoded.jti = payload.jti
    /\ decoded.sub = payload.sub
    /\ decoded.tier = payload.tier
    /\ decoded.device_limit = payload.device_limit
    /\ decoded.iat = payload.iat
    /\ decoded.exp = payload.exp

\* C17: verifying the token that signLicenseToken made of a payload, before
\* the second the payload expires in, succeeds and returns the jti, sub,
\* tier, device_limit, iat and exp that were signed.
C17_RoundTrip ==
    [][(VerifyToken /\ Untouched /\ Seconds(now) < testKeys.payload[1].exp)
          => ( /\ testKeys'.decoded[1].ok
               /\ SameClaims(testKeys'.decoded[1].decoded[1], testKeys.payload[1]) )]_vars

\* C17 witness: a signed token of the longest lifetime was verified in a
\* later second than it was signed in, and its payload came back.
C17_Witness ==
    /\ testKeys.decoded # <<>>
    /\ testKeys.decoded[1].ok
    /\ Untouched
    /\ testKeys.payload[1].exp = testKeys.payload[1].iat + MaxLifetime
    /\ Seconds(now) > testKeys.payload[1].iat
    /\ testKeys.decoded[1].decoded[1].jti = testKeys.payload[1].jti

\* C18: a verification that succeeds was made on the token as signed and
\* returns the claims that were signed; a token altered in a claim, in the
\* issuer or audience, or in the signature is never accepted.
C18_TamperDetected ==
    (testKeys.decoded # <<>> /\ testKeys.decoded[1].ok)
        => ( /\ Untouched
             /\ SameClaims(testKeys.decoded[1].decoded[1], testKeys.payload[1])
             /\ testKeys.decoded[1].decoded[1].iss = JWT_ISSUER
             /\ testKeys.decoded[1].decoded[1].aud = JWT_AUDIENCE )

\* C18 witness: a token whose expiry claim was moved ahead was verified
\* while the signed expiry had not passed, and was refused.
C18_Witness ==
    /\ testKeys.payload # <<>>
    /\ testKeys.token = <<TamperExp(signLicenseToken(testKeys.payload[1]))>>
    /\ Seconds(now) < testKeys.payload[1].exp
    /\ testKeys.decoded # <<>>
    /\ ~testKeys.decoded[1].ok
    /\ testKeys.decoded[1].error = "bad_signature"

\* C19: verifying a signed token in the second its exp names fails as
\* expired; verifying it one second before succeeds.
C19_TokenExpiryBoundary ==
    [][(VerifyToken /\ Untouched)
          => ( /\ testKeys.payload[1].exp = Seconds(now)
                      => ( /\ ~testKeys'.decoded[1].ok
                           /\ testKeys'.decoded[1].error = "expired" )
               /\ testKeys.payload[1].exp = Seconds(now) + 1
                      => testKeys'.decoded[1].ok )]_vars

\* C19 witness: a signed token was refused as expired at the first instant
\* of the second its exp names.
C19_Witness ==
    /\ Untouched
    /\ now = testKeys.payload[1].exp * TicksPerSec
    /\ testKeys.decoded # <<>>
    /\ testKeys.decoded[1].error = "expired"

\* C20: normalizing a value that normalizeDeviceFingerprint returned
\* succeeds and returns the same value.
C20_NormalizeIdempotent ==
    [][NormalizeAgain => fpCall'.result = <<[ok |-> TRUE,
                                            value |-> fpCall.result[1].value,
                                            error |-> ""]>>]_vars

\* C20 witness: a result cut to the maximum length was normalized again and
\* came back unchanged.
C20_Witness ==
    /\ fpCall.input \notin RawFingerprints
    /\ fpCall.result # <<>>
    /\ fpCall.result[1].ok
    /\ fpCall.result[1].value = fpCall.input.chars
    /\ Len(fpCall.input.chars) = MaxFingerprintLen

\* The body names no recognized plan, a device limit below 1 or a period
\* that is not positive.
BadBody(plan, device_limit, period_days) ==
    \/ plan \notin {"pro", "enterprise"}
    \/ device_limit < 1
    \/ period_days <= 0

\* C21: issue-license answers a request whose plan is not recognized, whose
\* device_limit is below 1 or whose period is not positive with an error
\* that carries no token and no key; it creates no row and draws no key.
C21_IssueRejectsInvalid ==
    [][\A providedToken \in AdminHeaders, email \in Emails, plan \in AnyPlans,
          device_limit \in AnyLimits, period_days \in AnyPeriods, insertOk \in BOOLEAN :
          ( /\ IssueLicense(providedToken, email, plan, device_limit, period_days,
                            insertOk)
            /\ BadBody(plan, device_limit, period_days) )
          => ( /\ ~issueResponse'[1].ok
               /\ issueResponse'[1].token = <<>>
               /\ issueResponse'[1].license_key = NoJti
               /\ licenses' = licenses
               /\ nextKey' = nextKey )]_vars

\* C21 witness: after a license was issued, a request with a bad body was
\* refused with status 400 and the table still holds that one license.
C21_Witness ==
    /\ DOMAIN licenses = {1}
    /\ nextKey = 2
    /\ issueResponse # <<>>
    /\ issueResponse[1].status = 400
    /\ issueResponse[1].error = "device_limit must be a positive number"

\* C22: every row is created with no devices and not revoked, and in every
\* state its email, plan, device_limit and expires_at (in seconds) are the
\* sub, tier, device_limit and exp of its signed token, whose exp is later
\* than its iat and whose device_limit is at least 1.
C22_RecordMatchesToken ==
    [][/\ \A k \in DOMAIN licenses' \ DOMAIN licenses :
              /\ licenses'[k].current_devices = <<>>
              /\ ~licenses'[k].revoked
       /\ \A k \in DOMAIN licenses' :
              LET row == licenses'[k]
              IN  /\ row.license_key = k
                  /\ row.jwt = signLicenseToken(
                         [lic |-> "LVX", sub |-> row.email, jti |-> k,
                          tier |-> row.plan, device_limit |-> row.device_limit,
                          iat |-> row.jwt.iat, exp |-> Seconds(row.expires_at)])
                  /\ row.jwt.exp > row.jwt.iat
                  /\ row.device_limit >= 1]_vars

\* C22 witness: a row made by issue-license and a row made by a generate
\* endpoint are stored, the second created after the clock moved.
C22_Witness ==
    /\ DOMAIN licenses = {1, 2}
    /\ licenses[2].jwt.iat > 0
    /\ issueResponse # <<>>
    /\ issueResponse[1].ok
    /\ \E g \in GenerateIds : GenerateDone(g) /\ generate[g].response[1].success

\* The fields of a row that are fixed at issuance.
IssuedFields(row) ==
    <<row.license_key, row.jwt, row.email, row.plan, row.device_limit, row.expires_at>>

\* C23: no step changes a row's license_key, jwt, email, plan, device_limit
\* or expires_at or removes it; current_devices changes only by the update
\* of a verify request for that row, which leaves revoked alone; revoked
\* changes only by the update of a revoke request for that row, which sets
\* it and leaves current_devices alone.
C23_RecordFrame ==
    [][\A k \in DOMAIN licenses :
          /\ k \in DOMAIN licenses'
          /\ IssuedFields(licenses'[k]) = IssuedFields(licenses[k])
          /\ licenses'[k].current_devices # licenses[k].current_devices =>
                 /\ \E p \in VerifyIds :
                        /\ verify[p].pc = "update"
                        /\ verify[p].licenseKey = k
                        /\ verify'[p].pc = "log"
                 /\ licenses'[k].revoked = licenses[k].revoked
                 /\ revoke' = revoke
          /\ licenses'[k].revoked # licenses[k].revoked =>
                 /\ \E r \in RevokeIds :
                        /\ revoke[r].pc = "update"
                        /\ revoke[r].license_key = k
                        /\ revoke'[r].pc = "done"
                 /\ licenses'[k].revoked
                 /\ licenses'[k].current_devices = licenses[k].current_devices
                 /\ verify' = verify]_vars

\* C23 witness: a row was revoked between the read and the write of a
\* verify request that bound a device to it, and its token was asked for
\* afterwards.
C23_Witness ==
    \E k \in DOMAIN licenses, p \in VerifyIds :
        /\ licenses[k].revoked
        /\ ReportsBound(p)
        /\ verify[p].licenseKey = k
        /\ licenses[k].current_devices = verify[p].updatedDevices
        /\ tokenResponse = <<TokenError(403, "License has been revoked")>>

\* C24: every change of a row's current_devices appends one fingerprint to
\* the stored list: the old list is a prefix of the new one, which is one
\* longer.
C24_AppendOnly ==
    [][\A k \in DOMAIN licenses :
          licenses'[k].current_devices # licenses[k].current_devices =>
              /\ Len(licenses'[k].current_devices)
                     = Len(licenses[k].current_devices) + 1
              /\ SubSeq(licenses'[k].current_devices, 1,
                        Len(licenses[k].current_devices))
                     = licenses[k].current_devices]_vars

\* C25: a verify request without fingerprint is answered in its first step
\* and writes neither table; on a valid license it succeeds with the stored
\* count and device_limit_exceeded = false.
C25_NoFingerprintReadOnly ==
    [][\A p \in VerifyIds, token \in ClientTokens :
          VerifyRequest(p, token, NoFingerprint) =>
              /\ verify'[p].pc = "done"
              /\ licenses' = licenses
              /\ license_activations' = license_activations
              /\ Admissible(token) =>
                     /\ verify'[p].response[1].ok
                     /\ verify'[p].response[1].current_devices_count
                            = Len(licenses[decodedJti(token)].current_devices)
                     /\ ~verify'[p].response[1].device_limit_exceeded
              /\ verify'[p].response[1].ok => Admissible(token)]_vars

\* C25 witness: a request without fingerprint was answered with the count
\* of a row that has a device bound, and the log holds that one binding.
C25_Witness ==
    \E p \in VerifyIds :
        /\ IsAnswered(p)
        /\ Answer(p).ok
        /\ verify[p].normalizedFingerprint = <<>>
        /\ Len(licenses[verify[p].licenseKey].current_devices) = 1
        /\ Answer(p).current_devices_count = 1
        /\ Len(license_activations) = 1

\* C26: a verify request that is answered with an error is answered in its
\* first step, before any write of the handler, and that step changes
\* neither table.
C26_ErrorsLeaveStore ==
    [][\A p \in VerifyIds :
          ( /\ verify[p].pc # "done"
            /\ verify'[p].pc = "done"
            /\ ~verify'[p].response[1].ok )
          => ( /\ verify[p].pc = "idle"
               /\ licenses' = licenses
               /\ license_activations' = license_activations )]_vars

\* C26 witness: requests were refused for a bad fingerprint and for a bad
\* signature on a row that has a device bound.
C26_Witness ==
    \E p, q \in VerifyIds :
        /\ HasError(p, "Internal server error")
        /\ HasError(q, "Invalid license token signature")
        /\ verify[p].licenseKey \in DOMAIN licenses
        /\ verify[q].licenseKey = verify[p].licenseKey

\* C27: a verify request whose update of current_devices the store
\* refused is not answered with success.
C27_StorageFailureSurfaced ==
    \A p \in VerifyIds : UpdateFailed(p) => ~Answer(p).ok

\* C28: the step that writes the activation row answers with the result the
\* handler had computed before it (success, the count and the flag of its
\* locals) and leaves the licenses table alone, whether the store applied
\* the insert or refused it.
C28_AuditBestEffort ==
    [][\A p \in VerifyIds :
          (verify[p].pc = "log" /\ verify'[p].pc # "log") =>
              /\ verify'[p].pc = "done"
              /\ verify'[p].response =
                     <<VerifyOk(verify[p].license[1], verify[p].currentDevicesCount,
                                verify[p].deviceLimitExceeded)>>
              /\ licenses' = licenses
              /\ \/ license_activations' = license_activations
                 \/ Len(license_activations') = Len(license_activations) + 1]_vars

\* C28 witness: a request bound its device and was answered so although the
\* store refused every activation row.
C28_Witness ==
    \E p \in VerifyIds :
        /\ ReportsBound(p)
        /\ licenses[verify[p].licenseKey].current_devices = verify[p].updatedDevices
        /\ license_activations = <<>>

\* The update of request p was applied by the store.
StoredByCall(p) ==
    /\ verify[p].updatedDevices # <<>>
    /\ verify[p].currentDevicesCount = Len(verify[p].updatedDevices)

\* C29: the activation log changes only by one row appended at its end for
\* a request that reached admission with a fingerprint not in the row it
\* read; the row names that request's license and fingerprint, reports
\* success exactly when the request's update stored the fingerprint and
\* device_limit_exceeded exactly when the row it read was full; a request
\* with an already bound fingerprint logs nothing.
C29_ActivationReflectsOutcome ==
    [][/\ license_activations' # license_activations =>
              \E p \in VerifyIds :
                  /\ verify[p].pc = "log"
                  /\ verify'[p].pc = "done"
                  /\ Len(license_activations') = Len(license_activations) + 1
                  /\ SubSeq(license_activations', 1, Len(license_activations))
                         = license_activations
                  /\ LET event == license_activations'[Len(license_activations')]
                     IN  /\ event.license_key = verify[p].licenseKey
                         /\ event.device_fingerprint = verify[p].normalizedFingerprint
                         /\ event.device_fingerprint
                                \notin Range(verify[p].license[1].current_devices)
                         /\ event.success <=> StoredByCall(p)
                         /\ event.device_limit_exceeded <=>
                                Len(verify[p].license[1].current_devices)
                                    >= verify[p].license[1].device_limit
       /\ \A p \in VerifyIds, token \in ClientTokens, fingerprint \in Fingerprints :
              ( /\ VerifyRequest(p, token, fingerprint)
                /\ Admissible(token)
                /\ normalizeDeviceFingerprint(fingerprint).ok
                /\ normalizeDeviceFingerprint(fingerprint).value
                       \in Range(licenses[decodedJti(token)].current_devices) )
              => verify'[p].pc = "done"]_vars

\* Two different rows of the same email are enterprise licenses that are
\* neither revoked nor expired.
TwoActive(j, k) ==
    /\ j # k
    /\ licenses[j].email = licenses[k].email
    /\ \A i \in {j, k} :
           /\ licenses[i].plan = "enterprise"
           /\ ~licenses[i].revoked
           /\ licenses[i].expires_at > now

\* C30: no two non-revoked, non-expired enterprise rows exist for the same
\* email.
C30_OneActivePerEmail ==
    \A j, k \in DOMAIN licenses : ~TwoActive(j, k)

\* C31: at every instant and for every stored license, the expiry check on
\* the row and the expiry check on the row's own token give the same
\* answer.
C31_ExpiryChecksAgree ==
    \A k \in DOMAIN licenses :
        isExpired(licenses[k], now) <=> (jwtVerify(licenses[k].jwt, now) = "expired")

\* Payloads of the LicensePayload type a caller can hand to
\* signLicenseToken: the type constrains neither device_limit nor the order
\* of iat and exp.
AnyPayloads ==
    {[lic |-> "LVX", sub |-> sub, jti |-> jti, tier |-> tier,
      device_limit |-> device_limit, iat |-> Seconds(now), exp |-> Seconds(now) + life] :
        sub \in Emails, jti \in Keys, tier \in {"pro", "enterprise"},
        device_limit \in AnyLimits, life \in (0 - 1) .. MaxLifetime}

\* A caller signs any payload of the type.
SignAny == \E payload \in AnyPayloads : SignToken(payload)

\* The signing half of the codec under every deployment.
NextSigning ==
    \/ TickTo(CodecInstants)
    \/ SignAny
    \/ VerifyToken

SpecSigning == InitIn(Envs) /\ [][NextSigning]_vars

\* C32: a call of signLicenseToken with exp <= iat or device_limit < 1, or
\* without a private key, produces no token.
C32_SignRefusesInvalid ==
    (/\ testKeys.payload # <<>>
     /\ \/ testKeys.payload[1].exp <= testKeys.payload[1].iat
        \/ testKeys.payload[1].device_limit < 1
        \/ ~env.privateKey)
    => testKeys.token = <<>>

\* Other spellings of the fingerprint FpA: upper case, white space around
\* it, characters the normalizer drops.
FpAforms ==
    {StrFp(FpAraw),
     StrFp(<<"D","E","V","-","A","A","A","1">>),
     StrFp(<<"\t","d","e","v","-","a","a","a","1","\n">>),
     StrFp(<<"d","e","v","-","a",":","a","a","1","!">>)}

\* Canonical admission: the first client sends FpA, the second one of its
\* other spellings, or another device.
NextCanonical ==
    \/ Tick
    \/ Issue({1}, {ADMIN_ISSUE_TOKEN}, Plans, DeviceLimits, Periods)
    \/ Verify({1}, GenuineTokens, {StrFp(FpA)})
    \/ Verify({2}, GenuineTokens, FpAforms \cup {StrFp(FpB)})

SpecCanonical == Init /\ [][NextCanonical]_vars

\* The letters, digits, hyphens and underscores of a raw string, letters in
\* lower case.
Letters(raw) ==
    LET kept == SelectSeq(raw, LAMBDA c :
                    \/ c \in KeptChars
                    \/ \E i \in 1..Len(Uppers) : Uppers[i] = c)
    IN  [i \in 1..Len(kept) |->
            IF kept[i] \in KeptChars THEN kept[i]
            ELSE Lowers[CHOOSE j \in 1..Len(Uppers) : Uppers[j] = kept[i]]]

\* Two raw fingerprints differ only by letter case, white space or
\* characters outside [a-z0-9_-].
DifferOnlyInForm(raw1, raw2) ==
    /\ raw1.kind = "string"
    /\ raw2.kind = "string"
    /\ raw1 # raw2
    /\ Letters(raw1.chars) = Letters(raw2.chars)

\* C33: a verify request that reaches admission with a fingerprint differing
\* only in form from the one an earlier request bound to the same license
\* is answered as already bound: success, device_limit_exceeded = false, the
\* stored count, and nothing is written.
C33_CanonicalIdentity ==
    [][\A token \in GenuineTokens, raw \in FpAforms \cup {StrFp(FpB)} :
          ( /\ VerifyRequest(2, token, raw)
            /\ Admissible(token)
            /\ DifferOnlyInForm(StrFp(FpA), raw)
            /\ ReportsBound(1)
            /\ verify[1].licenseKey = decodedJti(token)
            /\ FpA \in Range(licenses[decodedJti(token)].current_devices) )
          => ( /\ verify'[2].pc = "done"
               /\ verify'[2].response[1].ok
               /\ ~verify'[2].response[1].device_limit_exceeded
               /\ verify'[2].response[1].current_devices_count
                      = Len(licenses[decodedJti(token)].current_devices)
               /\ licenses' = licenses
               /\ license_activations' = license_activations )]_vars

\* C33 witness: the first request bound FpA, the second, which did not send
\* FpB, was told already bound, and the row holds one device of two allowed.
C33_Witness ==
    /\ ReportsBound(1)
    /\ ReportsAlreadyBound(2)
    /\ verify[2].normalizedFingerprint = FpA
    /\ verify[1].licenseKey = verify[2].licenseKey
    /\ licenses[verify[2].licenseKey].current_devices = <<FpA>>
    /\ licenses[verify[2].licenseKey].device_limit = MaxDeviceLimit

\* C34: a call of normalizeDeviceFingerprint on an empty or non-string
\* input fails as invalid; on a string it fails as too short when fewer than
\* 8 letters, digits, hyphens and underscores remain, and otherwise returns
\* them, letters in lower case, cut to the first 128; every value returned
\* has 8 to 128 characters, all of [a-z0-9_-].
C34_NormalizeContract ==
    fpCall.result # <<>> =>
        LET input == fpCall.input
            result == fpCall.result[1]
            remaining == Letters(input.chars)
        IN  /\ IF input.kind # "string" \/ input.chars = <<>>
               THEN /\ ~result.ok
                    /\ result.error = "Invalid device fingerprint provided"
               ELSE IF Len(remaining) < 8
               THEN /\ ~result.ok
                    /\ result.error
                           = "Device fingerprint must be at least 8 characters long"
               ELSE /\ result.ok
                    /\ result.value =
                           SubSeq(remaining, 1,
                                  IF Len(remaining) > 128 THEN 128 ELSE Len(remaining))
            /\ result.ok =>
                   /\ Len(result.value) >= 8
                   /\ Len(result.value) <= 128
                   /\ \A i \in 1..Len(result.value) : result.value[i] \in KeptChars

\* C34 witness: a raw fingerprint with more than 128 characters left after
\* stripping was cut to 128 without failing.
C34_Witness ==
    /\ fpCall.input \in RawFingerprints
    /\ Len(Letters(fpCall.input.chars)) > 128
    /\ fpCall.result # <<>>
    /\ fpCall.result[1].ok
    /\ Len(fpCall.result[1].value) = 128

\* C35: for a license and a normalized fingerprint, at most one verify
\* request was told that it bound the fingerprint, and the activation log
\* holds at most one successful row for it.
C35_ExactlyOnceAdmission ==
    /\ \A p, q \in VerifyIds :
           ( /\ p # q
             /\ ReportsBound(p)
             /\ ReportsBound(q)
             /\ verify[p].licenseKey = verify[q].licenseKey )
           => verify[p].normalizedFingerprint # verify[q].normalizedFingerprint
    /\ \A i, j \in 1..Len(license_activations) :
           ( /\ i # j
             /\ license_activations[i].success
             /\ license_activations[j].success
             /\ license_activations[i].license_key = license_activations[j].license_key )
           => license_activations[i].device_fingerprint
                  # license_activations[j].device_fingerprint

\* C36: no two revoke requests for the same license were both answered
\* with success.
C36_OneRevokeSucceeds ==
    \A r, q \in RevokeIds :
        ( /\ r # q
          /\ revoke[r].pc = "done"
          /\ revoke[q].pc = "done"
          /\ revoke[r].license_key = revoke[q].license_key )
        => ~(revoke[r].response[1].ok /\ revoke[q].response[1].ok)

\* C37: the current_devices of a revoked row never change.
C37_RevokedRowFrozen ==
    [][\A k \in DOMAIN licenses :
          licenses[k].revoked =>
              licenses'[k].current_devices = licenses[k].current_devices]_vars

\* A sequence holds no value twice.
NoDuplicates(seq) == \A i, j \in 1..Len(seq) : seq[i] = seq[j] => i = j

\* C38: no row holds a fingerprint twice in current_devices.
C38_NoDuplicateDevices ==
    \A k \in DOMAIN licenses : NoDuplicates(licenses[k].current_devices)

\* C38 witness: two requests that sent the same fingerprint were both told
\* they bound it, and the row, which has room for two, holds it once.
C38_Witness ==
    \E p, q \in VerifyIds :
        /\ p # q
        /\ ReportsBound(p)
        /\ ReportsBound(q)
        /\ verify[p].licenseKey = verify[q].licenseKey
        /\ verify[p].normalizedFingerprint = verify[q].normalizedFingerprint
        /\ licenses[verify[p].licenseKey].device_limit = MaxDeviceLimit
        /\ licenses[verify[p].licenseKey].current_devices
               = <<verify[p].normalizedFingerprint>>

\* A fingerprint in canonical form: 8 to 128 characters of [a-z0-9_-], which
\* normalizeDeviceFingerprint returns as it is.
Canonical(fp) ==
    /\ Len(fp) >= 8
    /\ Len(fp) <= 128
    /\ \A i \in 1..Len(fp) : fp[i] \in KeptChars
    /\ normalizeDeviceFingerprint(StrFp(fp)).ok
    /\ normalizeDeviceFingerprint(StrFp(fp)).value = fp

\* C39: every fingerprint in a row's current_devices and every fingerprint
\* in the activation log is in canonical form.
C39_StoredFingerprintsCanonical ==
    /\ \A k \in DOMAIN licenses :
           \A fp \in Range(licenses[k].current_devices) : Canonical(fp)
    /\ \A i \in 1..Len(license_activations) :
           Canonical(license_activations[i].device_fingerprint)

\* C39 witness: the second client, which sends FpA only in other spellings,
\* bound it before the first client arrived; the row and the log hold FpA.
C39_Witness ==
    /\ verify[1].pc = "idle"
    /\ ReportsBound(2)
    /\ verify[2].normalizedFingerprint = FpA
    /\ licenses[verify[2].licenseKey].current_devices = <<FpA>>
    /\ Len(license_activations) = 1
    /\ license_activations[1].device_fingerprint = FpA

\* C40: a token retrieval changes nothing but its own response; for a row
\* that is revoked or whose expires_at is before now it returns an error and
\* no token, and for a key that names no row 'License key not found'.
C40_TokenRetrieval ==
    [][\A license_key \in Keys \cup {NoJti} :
          GetLicenseToken(license_key) =>
              /\ UNCHANGED <<env, now, nextKey, licenses, license_activations, verify,
                             revoke, issueResponse, generate, testKeys, fpCall>>
              /\ ( /\ license_key \in DOMAIN licenses
                   /\ \/ licenses[license_key].revoked
                      \/ licenses[license_key].expires_at < now )
                 => ( /\ ~tokenResponse'[1].ok
                      /\ tokenResponse'[1].jwt = <<>> )
              /\ ( /\ license_key # NoJti
                   /\ license_key \notin DOMAIN licenses )
                 => tokenResponse' = <<TokenError(404, "License key not found")>>
              /\ tokenResponse'[1].ok =>
                     tokenResponse'[1].jwt = <<licenses[license_key].jwt>>]_vars

\* C40 witness: a retrieval for a row that is past its expires_at and not
\* revoked was refused.
C40_Witness ==
    /\ tokenResponse = <<TokenError(403, "License has expired")>>
    /\ \E k \in DOMAIN licenses : ~licenses[k].revoked /\ licenses[k].expires_at < now

====
